---- MODULE Spec2Model ----
(***************************************************************************)
(* Model of tools/export_db_to_web_json.py: the SQLite -> JSON exporter.   *)
(* main() creates the output folder, opens the database, and for each      *)
(* entry of TABLES runs export_table, writes <table>.json and prints a     *)
(* progress line; after the loop it closes the connection.                 *)
(***************************************************************************)
EXTENDS Integers, Sequences, FiniteSets, TLC

VARIABLES
  dbFile,    \* what args.db names: "file", "missing", "unopenable", "created"
  db,        \* the database: table position -> [exists, cols, rows]
  files,     \* the output folder: file name -> file
  preFiles,  \* the output folder as it was when the process started
  pc,        \* position of main(): makedirs, connect, query, write, print, close, done, aborted
  i,         \* position in TABLES of the loop's current entry
  rows,      \* export_table: rows as returned by fetchall()
  cols,      \* export_table: column names from cur.description
  data,      \* main: the list returned by export_table
  con,       \* the connection: "none", "open", "closed"
  closes,    \* number of con.close() calls of this process
  err,       \* the exception that ended the process, or "none"
  stdout,    \* progress lines printed by this process
  opened,    \* positions whose output file this process opened for writing
  queried,   \* positions this process ran SELECT on, in order
  run        \* number of the current invocation of the tool

vars == <<dbFile, db, files, preFiles, pc, i, rows, cols, data, con, closes,
          err, stdout, opened, queried, run>>

(***************************************************************************)
(* Bounds of the model.                                                    *)
(***************************************************************************)
MaxRows == 2      \* rows of a table whose contents vary
MaxAbsent == 1    \* tables of the static list missing from the database
MaxRuns == 2      \* successive invocations with the same arguments

(***************************************************************************)
(* The static table list.                                                  *)
(***************************************************************************)
TABLES ==
  << [name |-> "elements",                 json_cols |-> <<>>],
     [name |-> "element_matchups",         json_cols |-> <<>>],
     [name |-> "rarities",                 json_cols |-> <<>>],
     [name |-> "growth_stages",            json_cols |-> <<>>],
     [name |-> "roles",                    json_cols |-> <<"stat_bias_json">>],
     [name |-> "natures",                  json_cols |-> <<>>],
     [name |-> "env_tags",                 json_cols |-> <<>>],
     [name |-> "training_styles",          json_cols |-> <<>>],
     [name |-> "species",                  json_cols |-> <<>>],
     [name |-> "monster_forms",            json_cols |-> <<>>],
     [name |-> "skills",                   json_cols |-> <<>>],
     [name |-> "skill_effects",            json_cols |-> <<"condition_json">>],
     [name |-> "form_skills",              json_cols |-> <<>>],
     [name |-> "status_effects",           json_cols |-> <<>>],
     [name |-> "status_effect_components", json_cols |-> <<"condition_json">>],
     [name |-> "synergy_rules",            json_cols |-> <<"condition_json", "modifier_json">>],
     [name |-> "items",                    json_cols |-> <<>>],
     [name |-> "egg_properties",           json_cols |-> <<>>],
     [name |-> "evolutions",               json_cols |-> <<>>],
     [name |-> "evolution_conditions",     json_cols |-> <<>>] >>

Positions == 1..Len(TABLES)

Range(s) == {s[n] : n \in 1..Len(s)}

(***************************************************************************)
(* Python values held in a row: None, int, str, bytes, and the structures  *)
(* json.loads builds.  The payload is kept as text so that values of       *)
(* different types stay comparable.                                        *)
(***************************************************************************)
PyNone == [t |-> "NoneType", v |-> ""]
PyInt(s) == [t |-> "int", v |-> s]
PyStr(s) == [t |-> "str", v |-> s]
PyBytes(s) == [t |-> "bytes", v |-> s]
PyDict(s) == [t |-> "dict", v |-> s]

\* bool(x): what `obj[c]` means as a condition
Truthy(x) ==
  CASE x.t = "NoneType" -> FALSE
    [] x.t = "int" -> x.v # "0"
    [] x.t = "str" -> x.v # ""
    [] x.t = "bytes" -> x.v # ""
    [] x.t = "dict" -> x.v # "{}"

\* json.loads(x): str and bytes are parsed, any other type raises TypeError;
\* text that is no JSON document raises JSONDecodeError.
JsonLoads(x) ==
  IF x.t \notin {"str", "bytes"} THEN [ok |-> FALSE, val |-> x]
  ELSE CASE x.v = "{\"atk\":1.2}" -> [ok |-> TRUE, val |-> PyDict("{atk: 1.2}")]
         [] x.v = "[]" -> [ok |-> TRUE, val |-> PyDict("[]")]
         [] x.v = "0" -> [ok |-> TRUE, val |-> PyInt("0")]
         [] x.v = "null" -> [ok |-> TRUE, val |-> PyNone]
         [] x.v = "\"Fire\"" -> [ok |-> TRUE, val |-> PyStr("Fire")]
         [] OTHER -> [ok |-> FALSE, val |-> x]

\* json.dump of one value: bytes are not serializable (TypeError)
Serializable(x) == x.t # "bytes"

JsonEncode(x) ==
  CASE x.t = "NoneType" -> [j |-> "null", v |-> "null"]
    [] x.t = "int" -> [j |-> "number", v |-> x.v]
    [] x.t = "str" -> [j |-> "string", v |-> x.v]
    [] x.t = "dict" -> [j |-> "structure", v |-> x.v]

(***************************************************************************)
(* Row documents: a dict, kept as the sequence of its items in insertion   *)
(* order.                                                                  *)
(***************************************************************************)
Keys(obj) == {obj[n].k : n \in 1..Len(obj)}

HasKey(obj, c) == c \in Keys(obj)

Get(obj, c) == obj[CHOOSE n \in 1..Len(obj) : obj[n].k = c].v

\* obj[c] = x
SetItem(obj, c, x) ==
  IF HasKey(obj, c)
  THEN [n \in 1..Len(obj) |-> IF obj[n].k = c THEN [k |-> c, v |-> x] ELSE obj[n]]
  ELSE Append(obj, [k |-> c, v |-> x])

Min(a, b) == IF a < b THEN a ELSE b

RECURSIVE DictZipFrom(_, _, _, _)
DictZipFrom(obj, cs, r, n) ==
  IF n > Min(Len(cs), Len(r)) THEN obj
  ELSE DictZipFrom(SetItem(obj, cs[n], r[n]), cs, r, n + 1)

\* dict(zip(cols, r))
DictZip(cs, r) == DictZipFrom(<<>>, cs, r, 1)

\* variant: the value is not tested before it is handed to json.loads
ShouldDecodeAny(obj, c) == HasKey(obj, c)

\* if c in obj and obj[c]:
ShouldDecode(obj, c) == HasKey(obj, c) /\ Truthy(Get(obj, c))

\* variant: a value that does not parse is replaced by None
DecodedOrNone(x) == IF JsonLoads(x).ok THEN JsonLoads(x).val ELSE PyNone

\* try: json.loads(x)  except Exception: pass
Decoded(x) == IF JsonLoads(x).ok THEN JsonLoads(x).val ELSE x

RECURSIVE DecodeFrom(_, _, _)
DecodeFrom(obj, json_cols, n) ==
  IF n > Len(json_cols) THEN obj
  ELSE LET c == json_cols[n] IN
       DecodeFrom(IF ShouldDecode(obj, c) THEN SetItem(obj, c, Decoded(Get(obj, c))) ELSE obj,
                  json_cols, n + 1)

\* variant: every column is decoded, designated or not
DecodeEveryKey(obj, json_cols) ==
  DecodeFrom(obj, [n \in 1..Len(obj) |-> obj[n].k], 1)

\* variant: obj[c] is assigned for every designated column, present or not
RECURSIVE AssignFrom(_, _, _)
AssignFrom(obj, json_cols, n) ==
  IF n > Len(json_cols) THEN obj
  ELSE LET c == json_cols[n] IN
       AssignFrom(SetItem(obj, c, IF ShouldDecode(obj, c) THEN Decoded(Get(obj, c))
                                  ELSE IF HasKey(obj, c) THEN Get(obj, c) ELSE PyNone),
                  json_cols, n + 1)

DecodeRowAssignAlways(obj, json_cols) == AssignFrom(obj, json_cols, 1)

\* for c in json_cols: ...
DecodeRow(obj, json_cols) == DecodeFrom(obj, json_cols, 1)

\* variant: the first fetched row is left out
export_table_skip_first(rs, cs, json_cols) ==
  [n \in 1..(Len(rs) - 1) |-> DecodeRow(DictZip(cs, rs[n + 1]), json_cols)]

\* the list `out` built from the fetched rows
export_table(rs, cs, json_cols) ==
  [n \in 1..Len(rs) |-> DecodeRow(DictZip(cs, rs[n]), json_cols)]

\* the cells json.loads is called on: <<row, index in json_cols>>
LoadsCalls(rs, cs, json_cols) ==
  {cell \in (1..Len(rs)) \X (1..Len(json_cols)) :
     ShouldDecode(DecodeFrom(DictZip(cs, rs[cell[1]]), SubSeq(json_cols, 1, cell[2] - 1), 1),
                  json_cols[cell[2]])}

(***************************************************************************)
(* Output files.  A file holds the JSON array json.dump wrote; `complete`  *)
(* is FALSE when json.dump raised part-way through the array.              *)
(***************************************************************************)
NoFile == [exists |-> FALSE, complete |-> FALSE, docs |-> <<>>]

StaleFile ==
  [exists |-> TRUE, complete |-> TRUE,
   docs |-> << << [k |-> "id", v |-> [j |-> "string", v |-> "stale"]] >> >>]

DocSerializable(obj) == \A n \in 1..Len(obj) : Serializable(obj[n].v)

EncodeDoc(obj) == [n \in 1..Len(obj) |-> [k |-> obj[n].k, v |-> JsonEncode(obj[n].v)]]

\* number of leading documents json.dump writes in full
RECURSIVE DumpedFrom(_, _)
DumpedFrom(d, n) ==
  IF n > Len(d) \/ ~DocSerializable(d[n]) THEN n - 1 ELSE DumpedFrom(d, n + 1)

Dumped(d) == DumpedFrom(d, 1)

\* variant: the file is opened with mode "a"
OpenedForAppend(f) == [f EXCEPT !.exists = TRUE, !.complete = TRUE]

\* open(path, "w"): the file exists and is empty
OpenedForWrite(f) == [exists |-> TRUE, complete |-> TRUE, docs |-> <<>>]

\* with open(path, "w") as f: json.dump(data, f, ...)
FileWritten(f, d) ==
  [exists |-> TRUE,
   complete |-> Dumped(d) = Len(d),
   docs |-> OpenedForWrite(f).docs \o [n \in 1..Dumped(d) |-> EncodeDoc(d[n])]]

\* os.path.join(args.out, f"{table}.json"), relative to the output folder
Path(t) == TABLES[t].name

FileNames == {Path(t) : t \in Positions}

\* variant: every other entry of the list is skipped
SkipTable(k) == k + 2

\* the loop variable of `for table, json_cols in TABLES`
NextTable(k) == k + 1

\* variant: a missing table reads as an empty one
NeverRaises(tbl) == FALSE

\* cur.execute("SELECT * FROM <table>") raises OperationalError: no such table
QueryRaises(tbl) == ~tbl.exists

(***************************************************************************)
(* Databases and output folders the tool is started on.                    *)
(***************************************************************************)
NoTable == [exists |-> FALSE, cols |-> <<>>, rows |-> <<>>]

ValidJson == PyStr("{\"atk\":1.2}")

ValuePool ==
  << PyNone, PyInt("0"), PyInt("1"), PyStr(""), PyStr("{bad"), ValidJson, PyBytes("\\x00") >>

\* every listed table present, one row, designated columns holding JSON text
BaseTable(t) ==
  [exists |-> TRUE,
   cols |-> <<"id">> \o TABLES[t].json_cols,
   rows |-> << <<PyInt("1")>> \o [n \in 1..Len(TABLES[t].json_cols) |-> ValidJson] >>]

BaseDb == [t \in Positions |-> BaseTable(t)]

EmptyDb == [t \in Positions |-> NoTable]

\* the column lists a table is tried with
ColChoices(t) ==
  IF TABLES[t].json_cols = <<>> THEN {<<"id", "name">>}
  ELSE {<<"id">> \o TABLES[t].json_cols, <<"id", "name">>}

\* values of a column that is not a designated JSON column
PlainPool == << PyStr("Fire"), ValidJson, PyInt("0"), PyBytes("\\x00") >>

\* the q-th value tried in column c
PoolValue(c, q) ==
  IF c = "name" THEN PlainPool[1 + ((q - 1) % Len(PlainPool))] ELSE ValuePool[q]

\* rows over the columns cs: id 1, and at most one designated cell that is
\* not valid JSON text
RowPool(cs) ==
  [x \in 1..((Len(cs) - 1) * Len(ValuePool)) |->
     LET p == 2 + ((x - 1) \div Len(ValuePool))
         q == 1 + ((x - 1) % Len(ValuePool))
     IN [n \in 1..Len(cs) |->
           IF n = 1 THEN PyInt("1")
           ELSE IF n = p THEN PoolValue(cs[n], q)
           ELSE ValidJson]]

\* tables whose contents vary: the first table with a JSON column, the tables
\* with several JSON columns, and the last table
VariedTables ==
  {t \in Positions : TABLES[t].json_cols # <<>> /\ \A u \in 1..(t - 1) : TABLES[u].json_cols = <<>>}
  \cup {t \in Positions : Len(TABLES[t].json_cols) > 1}
  \cup {Len(TABLES)}

\* stored rows, up to the order fetchall() returns them in
RowSeqs(cs) ==
  UNION {{[n \in 1..k |-> RowPool(cs)[ix[n]]] :
            ix \in {f \in [1..k -> 1..Len(RowPool(cs))] : \A a \in 1..(k - 1) : f[a] <= f[a + 1]}} :
         k \in 0..MaxRows}

TableContents(t) ==
  UNION {{[exists |-> TRUE, cols |-> cs, rows |-> rs] : rs \in RowSeqs(cs)} : cs \in ColChoices(t)}

AbsentSets == {A \in SUBSET Positions : Cardinality(A) <= MaxAbsent}

Databases ==
  {[t \in Positions |-> IF t \in A THEN NoTable ELSE BaseTable(t)] : A \in AbsentSets}
  \cup UNION {{[BaseDb EXCEPT ![t] = c] : c \in TableContents(t)} : t \in VariedTables}

Folders == {[f \in FileNames |-> NoFile], [f \in FileNames |-> StaleFile]}

Init ==
  /\ dbFile \in {"file", "missing", "unopenable"}
  /\ db \in (IF dbFile = "file" THEN Databases ELSE {EmptyDb})
  /\ files \in Folders
  /\ preFiles = files
  /\ pc = "makedirs"
  /\ i = 1
  /\ rows = <<>>
  /\ cols = <<>>
  /\ data = <<>>
  /\ con = "none"
  /\ closes = 0
  /\ err = "none"
  /\ stdout = <<>>
  /\ opened = {}
  /\ queried = <<>>
  /\ run = 1

Abort(e) == pc' = "aborted" /\ err' = e

\* os.makedirs(args.out, exist_ok=True)
Makedirs ==
  /\ pc = "makedirs"
  /\ pc' = "connect"
  /\ UNCHANGED <<dbFile, db, files, preFiles, i, rows, cols, data, con, closes,
                 err, stdout, opened, queried, run>>

\* os.makedirs raises OSError (the path is a file, or may not be created)
MakedirsFail ==
  /\ pc = "makedirs"
  /\ \A f \in FileNames : ~files[f].exists
  /\ Abort("filesystem")
  /\ UNCHANGED <<dbFile, db, files, preFiles, i, rows, cols, data, con, closes,
                 stdout, opened, queried, run>>

\* con = sqlite3.connect(args.db); cur = con.cursor()
\* sqlite3.connect creates the file when it is missing and its folder exists
Connect ==
  /\ pc = "connect"
  /\ dbFile # "unopenable"
  /\ dbFile' = (IF dbFile = "missing" THEN "created" ELSE dbFile)
  /\ con' = "open"
  /\ pc' = (IF Len(TABLES) >= 1 THEN "query" ELSE "close")
  /\ UNCHANGED <<db, files, preFiles, i, rows, cols, data, closes, err, stdout,
                 opened, queried, run>>

\* sqlite3.connect raises OperationalError: unable to open database file
ConnectFail ==
  /\ pc = "connect"
  /\ dbFile = "unopenable"
  /\ Abort("connection")
  /\ UNCHANGED <<dbFile, db, files, preFiles, i, rows, cols, data, con, closes,
                 stdout, opened, queried, run>>

\* data = export_table(cur, table, json_cols); fetchall() returns the rows
\* of the unordered scan in an order of the engine's choosing
Query ==
  /\ pc = "query"
  /\ ~QueryRaises(db[i])
  /\ \E p \in Permutations(1..Len(db[i].rows)) :
       /\ rows' = [n \in 1..Len(db[i].rows) |-> db[i].rows[p[n]]]
       /\ cols' = db[i].cols
       /\ data' = export_table(rows', cols', TABLES[i].json_cols)
  /\ queried' = Append(queried, i)
  /\ pc' = "write"
  /\ UNCHANGED <<dbFile, db, files, preFiles, i, con, closes, err, stdout, opened, run>>

QueryFail ==
  /\ pc = "query"
  /\ QueryRaises(db[i])
  /\ queried' = Append(queried, i)
  /\ Abort("query")
  /\ UNCHANGED <<dbFile, db, files, preFiles, i, rows, cols, data, con, closes,
                 stdout, opened, run>>

\* with open(path, "w", encoding="utf-8") as f: json.dump(data, f, ...)
Write ==
  /\ pc = "write"
  /\ files' = [files EXCEPT ![Path(i)] = FileWritten(files[Path(i)], data)]
  /\ opened' = opened \cup {i}
  /\ IF files'[Path(i)].complete
     THEN pc' = "print" /\ err' = err
     ELSE Abort("serialize")
  /\ UNCHANGED <<dbFile, db, preFiles, i, rows, cols, data, con, closes, stdout,
                 queried, run>>

\* open(path, "w") raises OSError (folder not writable)
WriteFail ==
  /\ pc = "write"
  /\ Abort("filesystem")
  /\ UNCHANGED <<dbFile, db, files, preFiles, i, rows, cols, data, con, closes,
                 stdout, opened, queried, run>>

\* print("Wrote", path, "rows:", len(data)), then the next loop entry
PrintLine ==
  /\ pc = "print"
  /\ stdout' = Append(stdout, [table |-> i, count |-> Len(data)])
  /\ i' = NextTable(i)
  /\ pc' = (IF i' <= Len(TABLES) THEN "query" ELSE "close")
  /\ UNCHANGED <<dbFile, db, files, preFiles, rows, cols, data, con, closes, err,
                 opened, queried, run>>

\* con.close()
Close ==
  /\ pc = "close"
  /\ con' = "closed"
  /\ closes' = closes + 1
  /\ pc' = "done"
  /\ UNCHANGED <<dbFile, db, files, preFiles, i, rows, cols, data, err, stdout,
                 opened, queried, run>>

\* the tool is invoked again with the same arguments on unchanged data
Rerun ==
  /\ pc = "done"
  /\ run < MaxRuns
  /\ run' = run + 1
  /\ preFiles' = files
  /\ pc' = "makedirs"
  /\ i' = 1
  /\ rows' = <<>>
  /\ cols' = <<>>
  /\ data' = <<>>
  /\ con' = "none"
  /\ closes' = 0
  /\ err' = "none"
  /\ stdout' = <<>>
  /\ opened' = {}
  /\ queried' = <<>>
  /\ UNCHANGED <<dbFile, db, files>>

Next ==
  \/ Makedirs
  \/ MakedirsFail
  \/ Connect
  \/ ConnectFail
  \/ Query
  \/ QueryFail
  \/ Write
  \/ WriteFail
  \/ PrintLine
  \/ Close
  \/ Rerun

Spec == Init /\ [][Next]_vars

(***************************************************************************)
(* Helpers of the properties.                                              *)
(***************************************************************************)
Terminated == pc \in {"done", "aborted"}

\* position of the first table of the static list missing from the database, or 0
FirstAbsent ==
  IF \E t \in Positions : ~db[t].exists
  THEN CHOOSE t \in Positions : ~db[t].exists /\ \A u \in 1..(t - 1) : db[u].exists
  ELSE 0

SameBag(s1, s2) ==
  /\ Len(s1) = Len(s2)
  /\ \A x \in Range(s1) \cup Range(s2) :
       Cardinality({n \in 1..Len(s1) : s1[n] = x}) = Cardinality({n \in 1..Len(s2) : s2[n] = x})

\* the documents a complete export of table t holds, in storage order
ExpectedDocs(t) ==
  LET d == [n \in 1..Len(db[t].rows) |->
              DecodeFrom(DictZipFrom(<<>>, db[t].cols, db[t].rows[n], 1), TABLES[t].json_cols, 1)]
  IN [n \in 1..Len(d) |-> EncodeDoc(d[n])]

\* positions of the fetched columns that are designated JSON columns of table i
JsonCells == {m \in 1..Len(cols) : cols[m] \in Range(TABLES[i].json_cols)}

PlainCells == (1..Len(cols)) \ JsonCells

\* export_table has returned for table i and its result is held in data
Exported == pc \in {"write", "print"}

\* C1: whenever the run terminates after the handle was opened, by completing
\* or by an error inside the table loop, the handle has been closed exactly once.
C1_HandleReleasedOnEveryExit ==
  (Terminated /\ dbFile = "file" /\ con # "none") => (con = "closed" /\ closes = 1)

\* C2: started on a database path that does not exist (and with the output
\* folder created), the run ends with a connection error raised at open time,
\* before any table is queried, and no output file is written.
C2_MissingDbFailsAtOpen ==
  (Terminated /\ run = 1 /\ dbFile \in {"missing", "unopenable", "created"} /\ err # "filesystem")
    => (err = "connection" /\ con = "none" /\ queried = <<>> /\ opened = {} /\ files = preFiles)

\* C3: when table k is the first one missing from the database, no file of
\* table k or of a later table is written, the run never completes, and when it
\* ends with the query error it ends at table k with the files of exactly the
\* tables before k written in this run and on disk.
C3_AbortAtMissingTable ==
  LET k == FirstAbsent IN
  k # 0 =>
    /\ opened \subseteq 1..(k - 1)
    /\ \A t \in k..Len(TABLES) : files[Path(t)] = preFiles[Path(t)]
    /\ pc \notin {"close", "done"}
    /\ (pc = "aborted" /\ err \notin {"filesystem", "connection"}) =>
         /\ err = "query"
         /\ i = k
         /\ opened = 1..(k - 1)
         /\ Len(stdout) = k - 1
         /\ \A t \in 1..(k - 1) :
              /\ files[Path(t)].exists
              /\ files[Path(t)].complete
              /\ SameBag(files[Path(t)].docs, ExpectedDocs(t))

C3_Witness ==
  /\ pc = "aborted"
  /\ err = "query"
  /\ FirstAbsent = 5
  /\ i = 5
  /\ 4 \in opened

\* C4: after a run that completes on a database holding every listed table,
\* each table has its own output file, a complete array with one document per
\* row of the table (its length is the row count, nothing dropped or
\* duplicated), whatever file of that name was there before.
C4_OneFilePerTable ==
  pc = "done" =>
    /\ \A t, u \in Positions : Path(t) = Path(u) => t = u
    /\ opened = Positions
    /\ \A t \in Positions :
         /\ db[t].exists
         /\ files[Path(t)].exists
         /\ files[Path(t)].complete
         /\ Len(files[Path(t)].docs) = Len(db[t].rows)
         /\ SameBag(files[Path(t)].docs, ExpectedDocs(t))
         /\ stdout[t] = [table |-> t, count |-> Len(db[t].rows)]

C4_Witness ==
  /\ pc = "done"
  /\ run = 1
  /\ \A f \in FileNames : preFiles[f] = StaleFile
  /\ Len(db[Len(TABLES)].rows) = 2
  /\ db[Len(TABLES)].rows[1] # db[Len(TABLES)].rows[2]

C6_FalsySkipped ==
  Exported =>
    \A n \in 1..Len(rows) : \A k \in 1..Len(TABLES[i].json_cols) :
      \A m \in 1..Len(cols) :
        (cols[m] = TABLES[i].json_cols[k] /\ ~Truthy(rows[n][m])) =>
          /\ <<n, k>> \notin LoadsCalls(rows, cols, TABLES[i].json_cols)
          /\ Get(data[n], cols[m]) = rows[n][m]

C6_Witness ==
  /\ pc = "print"
  /\ i = 5
  /\ cols = <<"id", "stat_bias_json">>
  /\ Len(rows) = 2
  /\ rows[1][2] = PyStr("")
  /\ rows[2][2] = PyInt("0")

\* C7: tables are processed one at a time in list order: table i is queried
\* only after the query, the file and the progress line of every earlier table,
\* so the files written in this run are always those of a prefix of the list.
C7_ListOrderNoOverlap ==
  /\ queried = [n \in 1..Len(queried) |-> n]
  /\ opened = 1..Cardinality(opened)
  /\ \A n \in 1..Len(stdout) : stdout[n].table = n
  /\ pc = "query" => (Len(queried) = i - 1 /\ opened = 1..(i - 1) /\ Len(stdout) = i - 1)
  /\ pc = "write" => (Len(queried) = i /\ opened = 1..(i - 1) /\ Len(stdout) = i - 1)
  /\ pc = "print" => (Len(queried) = i /\ opened = 1..i /\ Len(stdout) = i - 1)
  /\ pc \in {"close", "done"} =>
       (Len(queried) = Len(TABLES) /\ opened = Positions /\ Len(stdout) = Len(TABLES))

C7_Witness ==
  /\ pc = "query"
  /\ i = 3
  /\ opened = {1, 2}
  /\ Len(stdout) = 2

\* C8: a second run in succession on unchanged data leaves every output file
\* with the documents the first run left, up to their order, and adds or
\* removes no file.
C8_Idempotent ==
  (run >= 2 /\ pc = "done") =>
    \A f \in FileNames :
      /\ files[f].exists = preFiles[f].exists
      /\ files[f].complete = preFiles[f].complete
      /\ SameBag(files[f].docs, preFiles[f].docs)

C8_Witness ==
  /\ run = 2
  /\ pc = "done"
  /\ Len(db[16].rows) = 2
  /\ files[Path(16)].docs # preFiles[Path(16)].docs

\* C9: every row document of an exported table has exactly the column names
\* of the result metadata as its keys, in that order; decoding the designated
\* columns adds no key and removes none.
C9_SameKeySet ==
  Exported =>
    \A n \in 1..Len(data) :
      /\ Keys(data[n]) = Range(cols)
      /\ Len(data[n]) = Len(cols)
      /\ \A m \in 1..Len(cols) : data[n][m].k = cols[m]

C9_Witness ==
  /\ pc = "write"
  /\ i = 5
  /\ cols = <<"id", "name">>
  /\ Len(data) = 2

\* C10: an output file differs from what was there at the start only once this
\* run has queried its table and opened the file, so a run that a query error
\* ends at table k leaves the files of table k and of every later table as they
\* were; and a column outside the table's JSON-column list is exported exactly
\* as read.
C10_FrameOfWriteAndDecode ==
  /\ \A t \in Positions :
       /\ t \notin opened => files[Path(t)] = preFiles[Path(t)]
       /\ t \in opened => (t \in Range(queried) /\ (t < i \/ pc \in {"print", "aborted"}))
  /\ (pc = "aborted" /\ err = "query") =>
       \A t \in i..Len(TABLES) : files[Path(t)] = preFiles[Path(t)]
  /\ Exported =>
       \A n \in 1..Len(rows) : \A m \in PlainCells : Get(data[n], cols[m]) = rows[n][m]

C10_Witness ==
  /\ pc = "aborted"
  /\ err = "query"
  /\ i = 2
  /\ preFiles[Path(2)] = StaleFile
  /\ files[Path(1)] # StaleFile

====
